---- MODULE Spec2Model ----
(***************************************************************************)
(* The dashboard page (DashboardPage) of AgenticAI-Lab: the React state    *)
(* of the component, the mount effect that loads the agent and job lists,  *)
(* the prompt input, the createJob click handler and the setTimeout        *)
(* callback that resolves a submission.                                    *)
(*                                                                         *)
(* The JavaScript runtime is single threaded: a handler runs to completion *)
(* before the next event is taken, and React commits the state updates of  *)
(* a handler before the next event.  The only place where a handler stops  *)
(* is window.alert, which blocks the thread until the user dismisses the   *)
(* dialog; the handlers that call alert are therefore split there.         *)
(*                                                                         *)
(* The second part of the module is the scripts that set the project up    *)
(* and start it: the Unix setup script (bash), the Windows setup script    *)
(* (PowerShell) and dev.bat.  A script is a sequential process; a step of  *)
(* the model is one function of the script, or one iteration of a wait     *)
(* loop, and the outcome of every external command the step runs is an     *)
(* input of the step.                                                      *)
(***************************************************************************)
EXTENDS Integers, Sequences, FiniteSets, TLC

VARIABLES
    agents,         \* useState<Agent[]>([])
    jobs,           \* useState<Job[]>([])
    loading,        \* useState(true)
    jobPrompt,      \* useState(''), a sequence of characters
    isCreatingJob,  \* useState(false)
    timers,         \* pending setTimeout callbacks, in the order they were set
    mockResponse,   \* the response built by the timeout callback that is running
    alert,          \* the window.alert dialog on screen (blocks the thread)
    console,        \* what console.error has logged
    now,            \* the clock: Date.now(), in milliseconds since the page was mounted
    rows,           \* the statuses of a list given to the row render (agents.map / jobs.map)
    rendered,       \* the icon and the badge rendered for each of them
    script,         \* the script that is run: "setup.sh", "setup.ps1", "dev.bat" or "none"
    flags,          \* the switches the script was started with, and the host it runs on
    pc,             \* the step the script is at
    invoked,        \* the external commands the script has run
    succeeded,      \* those of them that returned success
    printed,        \* the messages the script has printed
    exitCode,       \* the exit code of the script, -1 while it runs
    attempt,        \* $attempt of Initialize-Database
    envLocal,       \* the file .env.local: "absent", "user" (the user's own) or "example"
    envExample      \* whether the file env.example exists

(* The state of the dashboard page *)
page == <<agents, jobs, loading, jobPrompt, isCreatingJob, timers,
          mockResponse, alert, console, now>>

(* The state of the row render *)
display == <<rows, rendered>>

(* The state of a script run *)
scriptVars == <<script, flags, pc, invoked, succeeded, printed, exitCode,
                attempt, envLocal, envExample>>

vars == <<page, display, scriptVars>>

(* What the handlers of the page leave alone *)
others == <<display, scriptVars>>

----------------------------------------------------------------------------
(* Bounds of the model *)

MaxLen == 2         \* longest prompt the user types
MaxNow == 6000      \* the clock stops here
TickMs == 1000      \* the clock advances in steps of this many milliseconds

(* Program constant: the delay given to setTimeout *)
DELAY == 2000

----------------------------------------------------------------------------
(* Strings are sequences of one-character strings *)

Chars == {" ", "\t", "a"}

Whitespace == {" ", "\t"}

RECURSIVE SeqsUpTo(_)
SeqsUpTo(n) ==
    IF n = 0 THEN {<<>>}
    ELSE LET shorter == SeqsUpTo(n - 1)
         IN  shorter \cup {Append(s, c) : s \in shorter, c \in Chars}

Prompts == SeqsUpTo(MaxLen)

(* String.prototype.trim: strips leading and trailing whitespace *)
RECURSIVE TrimStart(_)
TrimStart(s) ==
    IF s # <<>> /\ Head(s) \in Whitespace THEN TrimStart(Tail(s)) ELSE s

RECURSIVE TrimEnd(_)
TrimEnd(s) ==
    IF s # <<>> /\ s[Len(s)] \in Whitespace
    THEN TrimEnd(SubSeq(s, 1, Len(s) - 1))
    ELSE s

Trim(s) == TrimEnd(TrimStart(s))

(* JavaScript truthiness of a string: the empty string is falsy *)
Truthy(s) == s # <<>>

(* Decimal digits of a non-negative number, as a template literal prints it *)
RECURSIVE ToDigits(_)
ToDigits(n) ==
    IF n < 10 THEN <<n>> ELSE Append(ToDigits(n \div 10), n % 10)

(* `job_${n}` *)
JobId(n) == [prefix |-> "job_", digits |-> ToDigits(n)]

----------------------------------------------------------------------------
(* The mock data of fetchData *)

mockAgents ==
    << [id |-> "mistral",   name |-> "Mistral 7B",     status |-> "ready"],
       [id |-> "codellama", name |-> "Code Llama 13B", status |-> "ready"],
       [id |-> "llama",     name |-> "Llama 3.2 3B",   status |-> "ready"],
       [id |-> "research",  name |-> "Research Agent", status |-> "ready"] >>

mockJobs ==
    << [id |-> [prefix |-> "job_", digits |-> <<0, 0, 1>>],
        type |-> "content_creation", status |-> "completed"],
       [id |-> [prefix |-> "job_", digits |-> <<0, 0, 2>>],
        type |-> "video_generation", status |-> "processing"],
       [id |-> [prefix |-> "job_", digits |-> <<0, 0, 3>>],
        type |-> "content_creation", status |-> "completed"] >>

(* The dialogs of window.alert *)
NoAlert == [kind |-> "none", prompt |-> <<>>]

ValidationAlert == [kind |-> "validation", prompt |-> <<>>]

CompletedAlert(prompt) == [kind |-> "completed", prompt |-> prompt]

NoResponse == [id |-> JobId(0), status |-> "none", type |-> "none"]

ErrorFetchingData == "Error fetching data:"

----------------------------------------------------------------------------
DashboardInit ==
    /\ agents = <<>>
    /\ jobs = <<>>
    /\ loading = TRUE
    /\ jobPrompt = <<>>
    /\ isCreatingJob = FALSE
    /\ timers = <<>>
    /\ mockResponse = NoResponse
    /\ alert = NoAlert
    /\ console = <<>>
    /\ now = 0

(* No script is run *)
NoFlags == [SkipChecks |-> FALSE, NoDocker |-> FALSE, Help |-> FALSE,
            nativeThrows |-> FALSE]

NoScript ==
    /\ script = "none"
    /\ flags = NoFlags
    /\ pc = "none"
    /\ invoked = {}
    /\ succeeded = {}
    /\ printed = {}
    /\ exitCode = -1
    /\ attempt = 0
    /\ envLocal = "absent"
    /\ envExample = TRUE

Init ==
    /\ DashboardInit
    /\ rows = <<>>
    /\ rendered = <<>>
    /\ NoScript

(* The thread is free to take the next event *)
Idle == alert = NoAlert

(* Mutant of Rendered: the controls are rendered on the loading screen too *)
RenderedAlways == TRUE

(* The page renders the dashboard instead of the loading screen *)
Rendered == ~loading

(* Mutant of ControlEnabled: the controls lack the disabled attribute *)
ControlAlwaysEnabled == TRUE

(* The input and the button carry disabled={isCreatingJob} *)
ControlEnabled == ~isCreatingJob

(* The clock advances *)
Tick ==
    /\ now + TickMs <= MaxNow
    /\ now' = now + TickMs
    /\ UNCHANGED <<agents, jobs, loading, jobPrompt, isCreatingJob, timers,
                   mockResponse, alert, console>>
    /\ UNCHANGED others

(* Mutant of FetchData: setJobs(mockJobs) is missing *)
FetchDataWithoutJobs ==
    /\ loading
    /\ alert = NoAlert
    /\ agents' = mockAgents
    /\ loading' = FALSE
    /\ UNCHANGED <<jobs, jobPrompt, isCreatingJob, timers, mockResponse, alert,
                   console, now>>
    /\ UNCHANGED others

(* useEffect(() => { fetchData() }, []): the body has no await, so the whole
   function runs in the effect and its three updates commit together *)
FetchData ==
    /\ loading
    /\ Idle
    /\ agents' = mockAgents
    /\ jobs' = mockJobs
    /\ loading' = FALSE
    /\ UNCHANGED <<jobPrompt, isCreatingJob, timers, mockResponse, alert,
                   console, now>>
    /\ UNCHANGED others

(* Mutant of SetJobPrompt: the input lacks disabled={isCreatingJob} *)
SetJobPromptWhileCreating(value) ==
    /\ ~loading
    /\ alert = NoAlert
    /\ value # jobPrompt
    /\ jobPrompt' = value
    /\ UNCHANGED <<agents, jobs, loading, isCreatingJob, timers, mockResponse,
                   alert, console, now>>
    /\ UNCHANGED others

(* onChange={(e) => setJobPrompt(e.target.value)} *)
SetJobPrompt(value) ==
    /\ Rendered
    /\ ControlEnabled
    /\ Idle
    /\ value # jobPrompt
    /\ jobPrompt' = value
    /\ UNCHANGED <<agents, jobs, loading, isCreatingJob, timers, mockResponse,
                   alert, console, now>>
    /\ UNCHANGED others

(* Mutant of Rejected: the test forgets trim, if (!jobPrompt) *)
RejectedWithoutTrim(prompt) == ~Truthy(prompt)

(* The test of createJob: if (!jobPrompt.trim()) *)
Rejected(prompt) == ~Truthy(Trim(prompt))

(* Bound of the model: a submission is taken only if the clock can still
   reach the time its timer is due *)
CanResolve(due) ==
    \E k \in 0..MaxNow : now + k * TickMs >= due /\ now + k * TickMs <= MaxNow

(* setTimeout(callback, 2000): the callback closes over the jobPrompt of the
   render in which the button was clicked *)
SetTimeout(prompt) == Append(timers, [due |-> now + DELAY, prompt |-> prompt])

(* Mutant of CreateJob: an accepted submission marks the first agent busy *)
CreateJobDispatching ==
    /\ ~loading
    /\ ~isCreatingJob
    /\ alert = NoAlert
    /\ IF ~Truthy(Trim(jobPrompt))
       THEN /\ alert' = ValidationAlert
            /\ UNCHANGED <<isCreatingJob, timers, agents>>
       ELSE /\ \E k \in 0..MaxNow :
                  now + k * TickMs >= now + DELAY /\ now + k * TickMs <= MaxNow
            /\ agents # <<>>
            /\ agents' = [agents EXCEPT ![1].status = "busy"]
            /\ isCreatingJob' = TRUE
            /\ timers' = Append(timers, [due |-> now + DELAY, prompt |-> jobPrompt])
            /\ UNCHANGED alert
    /\ UNCHANGED <<jobs, loading, jobPrompt, mockResponse, console, now>>
    /\ UNCHANGED others

(* Mutant of CreateJob: a rejected submission clears the prompt *)
CreateJobClearsPrompt ==
    /\ ~loading
    /\ ~isCreatingJob
    /\ alert = NoAlert
    /\ IF ~Truthy(Trim(jobPrompt))
       THEN /\ alert' = ValidationAlert
            /\ jobPrompt' = <<>>
            /\ UNCHANGED <<isCreatingJob, timers>>
       ELSE /\ \E k \in 0..MaxNow :
                  now + k * TickMs >= now + DELAY /\ now + k * TickMs <= MaxNow
            /\ isCreatingJob' = TRUE
            /\ timers' = Append(timers, [due |-> now + DELAY, prompt |-> jobPrompt])
            /\ UNCHANGED <<alert, jobPrompt>>
    /\ UNCHANGED <<agents, jobs, loading, mockResponse, console, now>>
    /\ UNCHANGED others

(* onClick={createJob}, up to the alert or to the end of the function *)
CreateJob ==
    /\ Rendered
    /\ ControlEnabled
    /\ Idle
    /\ IF Rejected(jobPrompt)
       THEN /\ alert' = ValidationAlert
            /\ UNCHANGED <<isCreatingJob, timers>>
       ELSE /\ CanResolve(now + DELAY)
            /\ isCreatingJob' = TRUE
            /\ timers' = SetTimeout(jobPrompt)
            /\ UNCHANGED alert
    /\ UNCHANGED <<agents, jobs, loading, jobPrompt, mockResponse, console, now>>
    /\ UNCHANGED others

(* The user dismisses the validation dialog: createJob returns *)
DismissValidation ==
    /\ alert = ValidationAlert
    /\ alert' = NoAlert
    /\ UNCHANGED <<agents, jobs, loading, jobPrompt, isCreatingJob, timers,
                   mockResponse, console, now>>
    /\ UNCHANGED others

(* const mockResponse = { id: `job_${Date.now()}`, status: 'completed', ... } *)
MockResponse(t) ==
    [id |-> JobId(t), status |-> "completed", type |-> "content_creation"]

(* Mutant of NewJob: the job is added as processing *)
NewJobProcessing(response) ==
    [id |-> response.id, type |-> "content_creation", status |-> "processing"]

(* Mutant of NewJob: the job takes a failed status *)
NewJobFailed(response) ==
    [id |-> response.id, type |-> "content_creation", status |-> "failed"]

(* const newJob = { id: mockResponse.id, type: 'content_creation',
   status: 'completed' } *)
NewJob(response) ==
    [id |-> response.id, type |-> "content_creation", status |-> "completed"]

(* Mutant of PrependJob: the list is replaced, setJobs([newJob]) *)
KeepOnlyNewJob(newJob, prev) == <<newJob>>

(* Mutant of PrependJob: the new job goes to the end, [...prev, newJob] *)
AppendJob(newJob, prev) == Append(prev, newJob)

(* Mutant of PrependJob: the earlier jobs are put back to processing,
   [newJob, ...prev.map(j => ({ ...j, status: 'processing' }))] *)
PrependJobRestarting(newJob, prev) ==
    <<newJob>> \o [i \in 1..Len(prev) |-> [prev[i] EXCEPT !.status = "processing"]]

(* setJobs(prev => [newJob, ...prev]) *)
PrependJob(newJob, prev) == <<newJob>> \o prev

(* The timer is due: the callback builds mockResponse and stops in alert *)
Timeout ==
    /\ Idle
    /\ timers # <<>>
    /\ Head(timers).due <= now
    /\ mockResponse' = MockResponse(now)
    /\ alert' = CompletedAlert(Head(timers).prompt)
    /\ timers' = Tail(timers)
    /\ UNCHANGED <<agents, jobs, loading, jobPrompt, isCreatingJob, console, now>>
    /\ UNCHANGED others

(* Mutant of FinishTimeout: setJobPrompt('') is missing *)
FinishTimeoutKeepsPrompt ==
    /\ alert.kind = "completed"
    /\ alert' = NoAlert
    /\ jobs' = <<[id |-> mockResponse.id, type |-> "content_creation",
                  status |-> "completed"]>> \o jobs
    /\ isCreatingJob' = FALSE
    /\ mockResponse' = NoResponse
    /\ UNCHANGED <<agents, loading, jobPrompt, timers, console, now>>
    /\ UNCHANGED others

(* Mutant of FinishTimeout: setIsCreatingJob(false) is missing *)
FinishTimeoutKeepsFlag ==
    /\ alert.kind = "completed"
    /\ alert' = NoAlert
    /\ jobs' = <<[id |-> mockResponse.id, type |-> "content_creation",
                  status |-> "completed"]>> \o jobs
    /\ jobPrompt' = <<>>
    /\ mockResponse' = NoResponse
    /\ UNCHANGED <<agents, loading, isCreatingJob, timers, console, now>>
    /\ UNCHANGED others

(* The user dismisses the completion dialog: the rest of the callback runs *)
FinishTimeout ==
    /\ alert.kind = "completed"
    /\ alert' = NoAlert
    /\ jobs' = PrependJob(NewJob(mockResponse), jobs)
    /\ jobPrompt' = <<>>
    /\ isCreatingJob' = FALSE
    /\ mockResponse' = NoResponse
    /\ UNCHANGED <<agents, loading, timers, console, now>>
    /\ UNCHANGED others

Next ==
    \/ Tick
    \/ FetchData
    \/ \E value \in Prompts : SetJobPrompt(value)
    \/ CreateJob
    \/ DismissValidation
    \/ Timeout
    \/ FinishTimeout

Spec == Init /\ [][Next]_vars

(* Mutant of FetchDataThrows: the finally block is missing *)
FetchDataThrowsWithoutFinally ==
    /\ loading
    /\ alert = NoAlert
    /\ console' = Append(console, ErrorFetchingData)
    /\ UNCHANGED <<agents, jobs, loading, jobPrompt, isCreatingJob, timers,
                   mockResponse, alert, now>>
    /\ UNCHANGED others

(* The retrieval of fetchData throws: catch logs the error and finally clears
   loading; neither setAgents nor setJobs has run *)
FetchDataThrows ==
    /\ loading
    /\ Idle
    /\ console' = Append(console, ErrorFetchingData)
    /\ loading' = FALSE
    /\ UNCHANGED <<agents, jobs, jobPrompt, isCreatingJob, timers, mockResponse,
                   alert, now>>
    /\ UNCHANGED others

FaultNext == Next \/ FetchDataThrows

(* The dashboard with a retrieval that may fail *)
FaultSpec == Init /\ [][FaultNext]_vars

(* The event loop runs a due timer, the clock advances, and the user
   dismisses the completion dialog *)
LiveSpec ==
    Spec /\ WF_vars(Tick) /\ WF_vars(Timeout) /\ WF_vars(FinishTimeout)

(* What the component returns: the loading screen while loading, else the
   dashboard *)
Screen == IF loading THEN "loading" ELSE "dashboard"

----------------------------------------------------------------------------
(* The status projection and the rows of the two lists *)

MaxRows == 2        \* longest list of statuses given to the row render

(* The statuses of the Agent and Job types, and two strings outside them *)
StatusStrings ==
    {"ready", "busy", "error", "created", "processing", "completed", "failed",
     "unknown", ""}

(* What a switch without a matching case returns: undefined *)
UndefinedIcon == [component |-> "undefined", className |-> ""]

UndefinedBadge == [variant |-> "undefined", className |-> "", label |-> ""]

(* Mutant of getStatusIcon: the switch has no default *)
getStatusIconWithoutDefault(status) ==
    CASE status = "ready" ->
           [component |-> "CheckCircle", className |-> "h-4 w-4 text-green-500"]
      [] status \in {"busy", "processing"} ->
           [component |-> "Clock", className |-> "h-4 w-4 text-yellow-500"]
      [] status \in {"error", "failed"} ->
           [component |-> "AlertCircle", className |-> "h-4 w-4 text-red-500"]
      [] status = "completed" ->
           [component |-> "CheckCircle", className |-> "h-4 w-4 text-green-500"]
      [] OTHER -> UndefinedIcon

(* getStatusIcon: switch (status) *)
getStatusIcon(status) ==
    CASE status = "ready" ->
           [component |-> "CheckCircle", className |-> "h-4 w-4 text-green-500"]
      [] status \in {"busy", "processing"} ->
           [component |-> "Clock", className |-> "h-4 w-4 text-yellow-500"]
      [] status \in {"error", "failed"} ->
           [component |-> "AlertCircle", className |-> "h-4 w-4 text-red-500"]
      [] status = "completed" ->
           [component |-> "CheckCircle", className |-> "h-4 w-4 text-green-500"]
      [] OTHER ->
           [component |-> "RefreshCw", className |-> "h-4 w-4 text-gray-500"]

(* Mutant of getStatusBadge: the default badge has a fixed label *)
getStatusBadgeFixedLabel(status) ==
    CASE status = "ready" ->
           [variant |-> "secondary", className |-> "text-green-700 bg-green-100",
            label |-> "Ready"]
      [] status \in {"busy", "processing"} ->
           [variant |-> "secondary", className |-> "text-yellow-700 bg-yellow-100",
            label |-> "Busy"]
      [] status \in {"error", "failed"} ->
           [variant |-> "destructive", className |-> "", label |-> "Error"]
      [] status = "completed" ->
           [variant |-> "secondary", className |-> "text-green-700 bg-green-100",
            label |-> "Completed"]
      [] OTHER ->
           [variant |-> "outline", className |-> "", label |-> "Unknown"]

(* Mutant of getStatusBadge: processing has a case and a label of its own *)
getStatusBadgeProcessing(status) ==
    CASE status = "ready" ->
           [variant |-> "secondary", className |-> "text-green-700 bg-green-100",
            label |-> "Ready"]
      [] status = "busy" ->
           [variant |-> "secondary", className |-> "text-yellow-700 bg-yellow-100",
            label |-> "Busy"]
      [] status = "processing" ->
           [variant |-> "secondary", className |-> "text-yellow-700 bg-yellow-100",
            label |-> "Processing"]
      [] status \in {"error", "failed"} ->
           [variant |-> "destructive", className |-> "", label |-> "Error"]
      [] status = "completed" ->
           [variant |-> "secondary", className |-> "text-green-700 bg-green-100",
            label |-> "Completed"]
      [] OTHER ->
           [variant |-> "outline", className |-> "", label |-> status]

(* getStatusBadge: switch (status) *)
getStatusBadge(status) ==
    CASE status = "ready" ->
           [variant |-> "secondary", className |-> "text-green-700 bg-green-100",
            label |-> "Ready"]
      [] status \in {"busy", "processing"} ->
           [variant |-> "secondary", className |-> "text-yellow-700 bg-yellow-100",
            label |-> "Busy"]
      [] status \in {"error", "failed"} ->
           [variant |-> "destructive", className |-> "", label |-> "Error"]
      [] status = "completed" ->
           [variant |-> "secondary", className |-> "text-green-700 bg-green-100",
            label |-> "Completed"]
      [] OTHER ->
           [variant |-> "outline", className |-> "", label |-> status]

(* One row of a list: {getStatusIcon(x.status)} ... {getStatusBadge(x.status)} *)
RenderRow(status) ==
    [icon |-> getStatusIcon(status), badge |-> getStatusBadge(status)]

RECURSIVE StatusSeqsUpTo(_)
StatusSeqsUpTo(n) ==
    IF n = 0 THEN {<<>>}
    ELSE LET shorter == StatusSeqsUpTo(n - 1)
         IN  shorter \cup {Append(r, x) : r \in shorter, x \in StatusStrings}

(* The lists of statuses the row render is given *)
StatusRows == StatusSeqsUpTo(MaxRows)

(* agents.map(...) / jobs.map(...): every row of the list is rendered *)
RenderRows ==
    /\ rows # <<>>
    /\ rendered = <<>>
    /\ rendered' = [i \in 1..Len(rows) |-> RenderRow(rows[i])]
    /\ UNCHANGED <<page, rows, scriptVars>>

ProjectionInit ==
    /\ DashboardInit
    /\ rows \in StatusRows
    /\ rendered = <<>>
    /\ NoScript

ProjectionNext == RenderRows

(* The row render applied to every list of statuses *)
ProjectionSpec == ProjectionInit /\ [][ProjectionNext]_vars

(* The Completed card: jobs.filter(job => job.status === 'completed').length *)
CompletedCount ==
    Cardinality({i \in 1..Len(jobs) : jobs[i].status = "completed"})

(* The Active Jobs card: jobs.filter(job => job.status === 'processing').length *)
ActiveCount ==
    Cardinality({i \in 1..Len(jobs) : jobs[i].status = "processing"})

----------------------------------------------------------------------------
(* Vocabulary of the properties *)

(* A prompt that is empty or consists only of whitespace *)
Blank(s) == \A i \in 1..Len(s) : s[i] \in Whitespace

(* A submission is in flight: its timer is pending, or its callback runs *)
InFlight == (IF alert.kind = "completed" THEN 1 ELSE 0) + Len(timers)

(* The step in which the timeout callback of a submission completes *)
Resolution == alert.kind = "completed" /\ alert'.kind # "completed"

(* The order created -> processing -> {completed | failed} *)
StatusRank(status) ==
    CASE status = "created" -> 0
      [] status = "processing" -> 1
      [] status \in {"completed", "failed"} -> 2

MovesForward(from, to) ==
    \/ to = from
    \/ from \notin {"completed", "failed"} /\ StatusRank(to) > StatusRank(from)

----------------------------------------------------------------------------
(* C1: a createJob call with an empty or whitespace-only prompt leaves the
   job list as it is, starts no timer (so no Job is added later either: no
   timer and no running callback ever carries a blank prompt) and shows the
   validation alert. *)
C1_BlankPromptRejected ==
    /\ [](/\ \A i \in 1..Len(timers) : ~Blank(timers[i].prompt)
          /\ alert.kind = "completed" => ~Blank(alert.prompt))
    /\ [][(CreateJob /\ Blank(jobPrompt)) =>
            /\ jobs' = jobs
            /\ timers' = timers
            /\ isCreatingJob' = isCreatingJob
            /\ alert' = ValidationAlert]_vars

(* A whitespace-only prompt was submitted and the validation alert is shown *)
C1_Witness ==
    /\ alert = ValidationAlert
    /\ jobPrompt # <<>>
    /\ Blank(jobPrompt)
    /\ jobs = mockJobs

(* C2: when a submission resolves, and only then once the dashboard is
   rendered, the job list becomes one new Job followed by the previous list;
   the new Job has status completed and type content_creation. *)
C2_ResolutionPrependsOneJob ==
    [][(Resolution \/ (Rendered /\ jobs' # jobs)) =>
         /\ Resolution
         /\ Len(jobs') = Len(jobs) + 1
         /\ Tail(jobs') = jobs
         /\ Head(jobs').status = "completed"
         /\ Head(jobs').type = "content_creation"]_vars

(* Two submissions have resolved, the later one first in the list *)
C2_Witness ==
    /\ Len(jobs) = 5
    /\ SubSeq(jobs, 3, 5) = mockJobs
    /\ jobs[1].id # jobs[2].id
    /\ ~isCreatingJob

(* C3: at most one submission is in flight. *)
C3_AtMostOneInFlight == InFlight <= 1

(* A second submission is in flight after the first one resolved *)
C3_Witness == Len(timers) = 1 /\ Len(jobs) = 4 /\ alert = NoAlert

(* C4: isCreatingJob is true exactly while a submission is in flight: from
   its acceptance to its resolution, and false again right after. *)
C4_DisabledWhileInFlight ==
    /\ [](isCreatingJob <=> InFlight > 0)
    /\ [][Resolution => ~isCreatingJob']_vars
    /\ [][(InFlight' > InFlight) => isCreatingJob']_vars

(* The control is enabled again after a resolution *)
C4_Witness == ~isCreatingJob /\ Len(jobs) = 4 /\ jobPrompt = <<>>

C6_LoadShowsMockData ==
    /\ [](loading => Screen = "loading" /\ agents = <<>> /\ jobs = <<>>)
    /\ [][(loading /\ ~loading') =>
            /\ Screen' = "dashboard"
            /\ agents' = mockAgents
            /\ Len(agents') = 4
            /\ jobs' = mockJobs
            /\ Len(jobs') = 3]_vars

(* The dashboard right after the load *)
C6_Witness ==
    /\ ~loading
    /\ agents = mockAgents
    /\ jobs = mockJobs
    /\ console = <<>>

(* C7: a failed retrieval is logged once, loading becomes false, the lists
   are empty, and a later submission still adds its Job. *)
C7_FetchFailureDegrades ==
    /\ [][console' # console =>
            /\ console' = <<ErrorFetchingData>>
            /\ loading /\ ~loading'
            /\ agents' = <<>>
            /\ jobs' = <<>>]_vars
    /\ [](console # <<>> => ~loading /\ Screen = "dashboard" /\ agents = <<>>)
    /\ [][(console # <<>> /\ Resolution) =>
            /\ Len(jobs') = Len(jobs) + 1
            /\ Tail(jobs') = jobs
            /\ Head(jobs').status = "completed"]_vars

(* After a failed retrieval a submission was accepted and added its Job *)
C7_Witness ==
    /\ console = <<ErrorFetchingData>>
    /\ agents = <<>>
    /\ Len(jobs) = 1
    /\ ~isCreatingJob

(* C8: no step moves a Job of the list to an earlier status, and a completed
   or failed Job keeps its status. *)
C8_StatusMonotonic ==
    [][\A i \in 1..Len(jobs) : \A j \in 1..Len(jobs') :
         jobs'[j].id = jobs[i].id =>
             MovesForward(jobs[i].status, jobs'[j].status)]_vars

(* Two submissions resolved while job_002 is still processing *)
C8_Witness ==
    /\ Len(jobs) = 5
    /\ jobs[4].status = "processing"
    /\ jobs[1].status = "completed"

(* C9: the Job of a submission is in the list from the submission on, with
   status created or processing while the submission is in flight. *)
C9_JobCreatedAtSubmission ==
    isCreatingJob =>
        /\ jobs # <<>>
        /\ Head(jobs).status \in {"created", "processing"}

(* C10: a submission never yields a failed Job: no Job of the list is failed
   and the response of a running callback is completed. *)
C10_NoFailedJob ==
    /\ \A i \in 1..Len(jobs) : jobs[i].status # "failed"
    /\ alert.kind = "completed" => mockResponse.status = "completed"

(* A submission resolved and the next one is in flight *)
C10_Witness ==
    /\ Len(jobs) = 4
    /\ Head(jobs).status = "completed"
    /\ isCreatingJob

----------------------------------------------------------------------------
(* Vocabulary of the later properties *)

(* The number a sequence of decimal digits writes *)
RECURSIVE DigitsValue(_)
DigitsValue(digits) ==
    IF digits = <<>> THEN 0
    ELSE 10 * DigitsValue(SubSeq(digits, 1, Len(digits) - 1)) + digits[Len(digits)]

(* The statuses of the Agent and Job types *)
DomainStatuses ==
    {"ready", "busy", "error", "created", "processing", "completed", "failed"}

(* The statuses that have a case in the two switches *)
CasedStatuses == {"ready", "busy", "processing", "error", "failed", "completed"}

(* The rows have been rendered *)
RowsRendered == rows # <<>> /\ Len(rendered) = Len(rows)

(* C11: the ids of the Jobs of the list are pairwise distinct. *)
C11_JobIdsUnique ==
    \A i \in 1..Len(jobs) : \A j \in 1..Len(jobs) :
        i # j => jobs[i].id # jobs[j].id

(* Three submissions have resolved, one after the other *)
C11_Witness == Len(jobs) = 6 /\ SubSeq(jobs, 4, 6) = mockJobs

(* C12: getStatusIcon and getStatusBadge return a representation for every
   status of the domain and for every other string. *)
C12_ProjectionTotal ==
    \A i \in 1..Len(rendered) :
        /\ rendered[i].icon # UndefinedIcon
        /\ rendered[i].icon.component \in
               {"CheckCircle", "Clock", "AlertCircle", "RefreshCw"}
        /\ rendered[i].badge # UndefinedBadge
        /\ rendered[i].badge.variant \in {"secondary", "destructive", "outline"}

(* A status of the domain and a string outside it have been rendered *)
C12_Witness ==
    /\ RowsRendered
    /\ Len(rows) = 2
    /\ rows[1] \in DomainStatuses
    /\ rows[2] \notin DomainStatuses

(* C13: the Completed card shows 2 after the load and one more after each
   resolved submission; no other step changes it. *)
C13_CompletedCount ==
    /\ [][(loading /\ ~loading') => CompletedCount' = 2]_vars
    /\ [][Resolution => CompletedCount' = CompletedCount + 1]_vars
    /\ [][(~loading /\ ~Resolution) => CompletedCount' = CompletedCount]_vars
    /\ [](~loading => CompletedCount = 2 + (Len(jobs) - Len(mockJobs)))

(* Two submissions have resolved: the card shows 4 *)
C13_Witness == CompletedCount = 4 /\ ~isCreatingJob /\ alert = NoAlert

(* C14: once loaded the agent list is the mock roster, every agent ready,
   and no step of a submission changes it. *)
C14_AgentsUnchanged ==
    /\ [](~loading =>
            /\ agents = mockAgents
            /\ \A i \in 1..Len(agents) : agents[i].status = "ready")
    /\ [][~loading => agents' = agents]_vars

(* A submission resolved and a later one was rejected *)
C14_Witness ==
    /\ agents = mockAgents
    /\ Len(jobs) = 4
    /\ alert = ValidationAlert

(* C15: a rejected submission changes nothing but the dialog: the lists,
   the prompt and isCreatingJob (false) are as before and no timer is
   started; dismissing the dialog changes nothing else either. *)
C15_RejectionChangesNothing ==
    /\ [][(CreateJob /\ Blank(jobPrompt)) =>
            /\ UNCHANGED <<jobs, agents, jobPrompt, isCreatingJob, timers>>
            /\ ~isCreatingJob'
            /\ timers' = <<>>]_vars
    /\ [][(alert = ValidationAlert /\ alert' # alert) =>
            UNCHANGED <<jobs, agents, jobPrompt, isCreatingJob, timers>>]_vars

(* The empty prompt was submitted and rejected *)
C15_Witness ==
    /\ alert = ValidationAlert
    /\ jobPrompt = <<>>
    /\ ~isCreatingJob
    /\ timers = <<>>

(* C16 as stated: busy and processing render the same icon and badge, and
   so do ready and completed. *)
C16_AliasesSameIconAndBadge ==
    \A i \in 1..Len(rendered) : \A j \in 1..Len(rendered) :
        (\/ {rows[i], rows[j]} \subseteq {"busy", "processing"}
         \/ {rows[i], rows[j]} \subseteq {"ready", "completed"})
            => rendered[i] = rendered[j]

(* C16, amended: busy and processing render the same icon and the same
   badge; ready and completed render the same icon and a badge of the same
   variant and colours, labelled Ready for ready and Completed for
   completed. *)
C16_AliasesAmended ==
    \A i \in 1..Len(rendered) : \A j \in 1..Len(rendered) :
        /\ {rows[i], rows[j]} \subseteq {"busy", "processing"}
              => rendered[i] = rendered[j]
        /\ {rows[i], rows[j]} \subseteq {"ready", "completed"} =>
              /\ rendered[i].icon = rendered[j].icon
              /\ rendered[i].badge.variant = rendered[j].badge.variant
              /\ rendered[i].badge.className = rendered[j].badge.className
              /\ rendered[i].badge.label =
                     (IF rows[i] = "ready" THEN "Ready" ELSE "Completed")

(* ready and completed have been rendered, with their two labels *)
C16_Witness ==
    /\ RowsRendered
    /\ rows = <<"ready", "completed">>
    /\ rendered[1].badge.label # rendered[2].badge.label

(* C17: the outline badge labelled with the status itself, and the RefreshCw
   icon, are rendered exactly for the statuses without a case. *)
C17_FallbackExactlyForUncased ==
    \A i \in 1..Len(rendered) :
        /\ rows[i] \notin CasedStatuses <=>
               rendered[i].badge =
                   [variant |-> "outline", className |-> "", label |-> rows[i]]
        /\ rows[i] \notin CasedStatuses <=>
               rendered[i].icon.component = "RefreshCw"

(* The status created has been rendered, next to a cased status *)
C17_Witness ==
    /\ RowsRendered
    /\ rows = <<"created", "completed">>
    /\ rendered[1].badge.label = "created"

(* C18: while loading nothing has been submitted, so the load replaces an
   empty job list; no step ever drops a Job of the list. *)
C18_LoadOverwritesNothing ==
    /\ [](loading =>
            /\ jobs = <<>>
            /\ timers = <<>>
            /\ ~isCreatingJob
            /\ alert = NoAlert)
    /\ [][(timers' # timers /\ Len(timers') > Len(timers)) => ~loading]_vars
    /\ [][\A i \in 1..Len(jobs) : \E j \in 1..Len(jobs') : jobs'[j] = jobs[i]]_vars

(* A submission was accepted after the load *)
C18_Witness == ~loading /\ isCreatingJob /\ Len(timers) = 1 /\ jobs = mockJobs

(* C19: after the load the job list is the Jobs of the resolved
   submissions, the most recent first, followed by the three mock jobs; a
   step leaves it as it is or puts one Job in front of it. *)
C19_JobListOnlyGrows ==
    /\ [](~loading =>
            LET n == Len(jobs) - Len(mockJobs)
            IN  /\ n >= 0
                /\ SubSeq(jobs, n + 1, Len(jobs)) = mockJobs
                /\ \A i \in 1..n :
                       /\ jobs[i].type = "content_creation"
                       /\ jobs[i].status = "completed"
                       /\ jobs[i].id.prefix = "job_"
                /\ \A i \in 1..n : \A j \in 1..n :
                       i < j => DigitsValue(jobs[i].id.digits)
                                    > DigitsValue(jobs[j].id.digits))
    /\ [][~loading =>
            \/ jobs' = jobs
            \/ Len(jobs') = Len(jobs) + 1 /\ Tail(jobs') = jobs]_vars

(* Two submissions resolved and a third is in flight *)
C19_Witness ==
    /\ Len(jobs) = 5
    /\ DigitsValue(jobs[1].id.digits) > DigitsValue(jobs[2].id.digits)
    /\ isCreatingJob

(* C20: after the load the Active Jobs card shows 1: job_002 stays
   processing and no submission, in flight or resolved, adds to it. *)
C20_ActiveCountIsOne ==
    ~loading =>
        /\ ActiveCount = 1
        /\ jobs[Len(jobs) - 1] = mockJobs[2]

(* The callback of a second submission runs while the card shows 1 *)
C20_Witness ==
    /\ alert.kind = "completed"
    /\ ActiveCount = 1
    /\ Len(jobs) = 4

(* C21: from the acceptance of a submission to its resolution the job list,
   the agent list and the prompt do not change, and the prompt the
   completion dialog reports is the prompt that was submitted, still in the
   input. *)
C21_NothingChangesInFlight ==
    /\ [][(isCreatingJob /\ isCreatingJob') =>
            UNCHANGED <<jobs, agents, jobPrompt>>]_vars
    /\ [][(~isCreatingJob /\ isCreatingJob') =>
            /\ UNCHANGED <<jobs, agents, jobPrompt>>
            /\ timers' = <<[due |-> now + DELAY, prompt |-> jobPrompt]>>]_vars
    /\ [](/\ \A i \in 1..Len(timers) : timers[i].prompt = jobPrompt
          /\ alert.kind = "completed" => alert.prompt = jobPrompt)

(* The dialog reports a two-character prompt that is still in the input *)
C21_Witness ==
    /\ alert.kind = "completed"
    /\ Len(alert.prompt) = 2
    /\ jobPrompt = alert.prompt

(* C22: a resolution empties the prompt; a click on the empty prompt is
   rejected with the validation dialog and starts no timer; and a
   submission is accepted only with a prompt typed since the last
   resolution, so one typed prompt yields at most one Job. *)
C22_OnePromptOneJob ==
    /\ [][Resolution => jobPrompt' = <<>>]_vars
    /\ [][(CreateJob /\ jobPrompt = <<>>) =>
            /\ alert' = ValidationAlert
            /\ UNCHANGED <<timers, jobs, isCreatingJob>>]_vars
    /\ [][Len(timers') > Len(timers) => ~Blank(jobPrompt)]_vars
    /\ [][(jobPrompt' # jobPrompt /\ jobPrompt' # <<>>) =>
            /\ ~isCreatingJob
            /\ alert = NoAlert
            /\ UNCHANGED <<jobs, timers>>]_vars

(* After a resolution the button was clicked again without typing *)
C22_Witness ==
    /\ alert = ValidationAlert
    /\ jobPrompt = <<>>
    /\ Len(jobs) = 4
    /\ timers = <<>>
    /\ now >= DELAY

----------------------------------------------------------------------------
(* The scripts.  A command is the text of its command line; a message is a
   pair of the level it is logged at and its text. *)

Error(text) == <<"error", text>>

Success(text) == <<"success", text>>

Warning(text) == <<"warning", text>>

Info(text) == <<"info", text>>

SetupCompleted == Success("Setup completed successfully!")

PgIsReady == "docker-compose exec postgres pg_isready"

PsPgIsReady == "docker-compose exec -T postgres pg_isready"

Alembic == "poetry run alembic upgrade head"

Uvicorn == "start /B cmd /c cd api && poetry run uvicorn main:app"

PnpmDev == "start /B cmd /c cd web && pnpm run dev"

(* The commands that run docker or docker-compose *)
DockerCommands ==
    {"docker --version", "docker info", "docker-compose up -d",
     "docker-compose ps", PgIsReady, PsPgIsReady}

(* The commands that copy env.example to .env.local *)
Copies ==
    {"cp env.example .env.local", "Copy-Item env.example .env.local",
     "copy env.example .env.local"}

(* The commands that install the dependencies of the project *)
Installs == {"poetry install", "pnpm install", "py -m pip install poetry"}

(* The record of a run keeps the commands and the messages the properties
   of the scripts speak about: the Docker commands, the migration, the
   copies, the installations and the servers; the errors and the messages
   below.  A step names everything it runs and prints. *)
Recorded ==
    DockerCommands \cup Copies \cup Installs
        \cup {Alembic, "cd api", Uvicorn, PnpmDev}

Reported ==
    {SetupCompleted, Info("Waiting for PostgreSQL..."),
     Info("Environment file already exists"),
     Success("Database migrations completed"), Success("Database initialized")}

Kept(msgs) == {m \in msgs : m[1] = "error" \/ m \in Reported}

(* The script goes on to the step next, having run the commands cmds, of
   which oks returned success, and printed msgs *)
Run(next, cmds, oks, msgs) ==
    /\ pc' = next
    /\ invoked' = invoked \cup (cmds \cap Recorded)
    /\ succeeded' = succeeded \cup (oks \cap Recorded)
    /\ printed' = printed \cup Kept(msgs)
    /\ exitCode' = exitCode
    /\ UNCHANGED <<script, flags, envExample, page, display>>

(* The script ends with the exit code code *)
Exit(code, cmds, oks, msgs) ==
    /\ pc' = "exited"
    /\ invoked' = invoked \cup (cmds \cap Recorded)
    /\ succeeded' = succeeded \cup (oks \cap Recorded)
    /\ printed' = printed \cup Kept(msgs)
    /\ exitCode' = code
    /\ UNCHANGED <<script, flags, envExample, page, display>>

(* The first k commands of a list, and those before the k-th *)
Upto(cmds, k) == {cmds[i] : i \in 1..k}

Before(cmds, k) == {cmds[i] : i \in 1..(k - 1)}

----------------------------------------------------------------------------
(* The Unix setup script: set -e, then main *)

ShRequired == <<"python3", "node", "docker", "git">>

ShVersion ==
    [python3 |-> "python3 --version", node |-> "node --version",
     docker |-> "docker --version", git |-> "git --version"]

ShNotInstalled ==
    [python3 |-> Error("Python 3 is not installed. Please install Python 3.11 or later."),
     node    |-> Error("Node.js is not installed. Please install Node.js 20.10.0 or later."),
     docker  |-> Error("Docker is not installed. Please install Docker Desktop."),
     git     |-> Error("Git is not installed. Please install Git.")]

ShVersions(k) == {ShVersion[ShRequired[i]] : i \in 1..k}

(* check_requirements: the first required command that is missing ends the
   script with exit 1; missing = 5 when all four are installed *)
check_requirements ==
    /\ script = "setup.sh"
    /\ pc = "check_requirements"
    /\ \E missing \in 1..(Len(ShRequired) + 1) :
          IF missing <= Len(ShRequired)
          THEN Exit(1, ShVersions(missing - 1), ShVersions(missing - 1),
                    {ShNotInstalled[ShRequired[missing]]})
          ELSE Run("setup_env", ShVersions(Len(ShRequired)),
                   ShVersions(Len(ShRequired)), {})
    /\ UNCHANGED <<attempt, envLocal>>

(* Mutant of setup_env: the copy is made whether .env.local exists or not *)
setup_env_overwriting ==
    /\ script = "setup.sh"
    /\ pc = "setup_env"
    /\ IF envExample
       THEN /\ Run("install_python_deps", {"cp env.example .env.local"},
                   {"cp env.example .env.local"},
                   {Success("Environment file created (.env.local)")})
            /\ envLocal' = "example"
       ELSE /\ Exit(1, {"cp env.example .env.local"}, {}, {})
            /\ envLocal' = envLocal
    /\ UNCHANGED attempt

(* setup_env: copies env.example to .env.local when there is no .env.local;
   a cp that fails ends the script (set -e) *)
setup_env ==
    /\ script = "setup.sh"
    /\ pc = "setup_env"
    /\ IF envLocal = "absent"
       THEN IF envExample
            THEN /\ Run("install_python_deps", {"cp env.example .env.local"},
                        {"cp env.example .env.local"},
                        {Success("Environment file created (.env.local)")})
                 /\ envLocal' = "example"
            ELSE /\ Exit(1, {"cp env.example .env.local"}, {}, {})
                 /\ envLocal' = envLocal
       ELSE /\ Run("install_python_deps", {}, {},
                   {Info("Environment file already exists")})
            /\ envLocal' = envLocal
    /\ UNCHANGED attempt

(* A step that runs the commands cmds one after the other under set -e:
   the first that fails ends the script with its exit code; failing = 0
   when none fails *)
ShCommands(cmds, failing, next, done) ==
    IF failing = 0
    THEN Run(next, Upto(cmds, Len(cmds)), Upto(cmds, Len(cmds)), {done})
    ELSE Exit(1, Upto(cmds, failing), Before(cmds, failing), {})

(* install_python_deps: installs Poetry when the command is missing (the
   status of the pipeline is the status of python3), then poetry install *)
install_python_deps ==
    /\ script = "setup.sh"
    /\ pc = "install_python_deps"
    /\ \E hasPoetry \in BOOLEAN :
          LET cmds == IF hasPoetry
                      THEN <<"poetry install">>
                      ELSE <<"curl -sSL https://install.python-poetry.org | python3 -",
                             "poetry install">>
          IN  \E failing \in 0..Len(cmds) :
                 ShCommands(cmds, failing, "install_node_deps",
                            Success("Python dependencies installed"))
    /\ UNCHANGED <<attempt, envLocal>>

(* install_node_deps: installs pnpm when the command is missing, then
   pnpm install *)
install_node_deps ==
    /\ script = "setup.sh"
    /\ pc = "install_node_deps"
    /\ \E hasPnpm \in BOOLEAN :
          LET cmds == IF hasPnpm
                      THEN <<"pnpm install">>
                      ELSE <<"npm install -g pnpm", "pnpm install">>
          IN  \E failing \in 0..Len(cmds) :
                 ShCommands(cmds, failing, "start_docker",
                            Success("Node.js dependencies installed"))
    /\ UNCHANGED <<attempt, envLocal>>

(* start_docker: exit 1 when docker info fails; docker-compose up -d, whose
   failure ends the script (set -e); sleep 30 *)
start_docker ==
    /\ script = "setup.sh"
    /\ pc = "start_docker"
    /\ \E running \in BOOLEAN, up \in BOOLEAN :
          IF ~running
          THEN Exit(1, {"docker info"}, {},
                    {Error("Docker is not running. Please start Docker Desktop.")})
          ELSE IF up
               THEN Run("run_migrations", {"docker info", "docker-compose up -d"},
                        {"docker info", "docker-compose up -d"},
                        {Success("Docker services started")})
               ELSE Exit(1, {"docker info", "docker-compose up -d"},
                         {"docker info"}, {})
    /\ UNCHANGED <<attempt, envLocal>>

(* Bound of the model: the probes of the Unix script that find PostgreSQL
   not ready *)
MaxWaits == 2

(* Mutant of run_migrations: the wait gives up after the first probe *)
run_migrations_once ==
    /\ script = "setup.sh"
    /\ pc = "run_migrations"
    /\ \E ready \in BOOLEAN :
          IF ready
          THEN Run("alembic_upgrade", {PgIsReady}, {PgIsReady}, {})
          ELSE Run("alembic_upgrade", {PgIsReady}, {},
                   {Info("Waiting for PostgreSQL...")})
    /\ UNCHANGED <<attempt, envLocal>>

(* run_migrations, one iteration of until pg_isready; do ... sleep 2; done:
   the loop is left when the probe succeeds and by nothing else.  The
   script counts nothing here; attempt counts the probes that failed so
   that the run of the model is finite. *)
run_migrations ==
    /\ script = "setup.sh"
    /\ pc = "run_migrations"
    /\ \E ready \in BOOLEAN :
          IF ready
          THEN /\ Run("alembic_upgrade", {PgIsReady}, {PgIsReady}, {})
               /\ attempt' = attempt
          ELSE /\ attempt < MaxWaits
               /\ Run("run_migrations", {PgIsReady}, {},
                      {Info("Waiting for PostgreSQL...")})
               /\ attempt' = attempt + 1
    /\ UNCHANGED envLocal

(* run_migrations, after the loop: cd api && poetry run alembic upgrade
   head; cd ..  The failure of cd api is the failure of a command of an
   && list that is not its last, which set -e ignores; the failure of
   alembic ends the script. *)
alembic_upgrade ==
    /\ script = "setup.sh"
    /\ pc = "alembic_upgrade"
    /\ \E cdApi \in BOOLEAN, upgraded \in BOOLEAN :
          IF ~cdApi
          THEN Run("download_models", {"cd api"}, {},
                   {Success("Database migrations completed")})
          ELSE IF upgraded
               THEN Run("download_models", {"cd api", Alembic}, {"cd api", Alembic},
                        {Success("Database migrations completed")})
               ELSE Exit(1, {"cd api", Alembic}, {"cd api"}, {})
    /\ UNCHANGED <<attempt, envLocal>>

(* download_models: mkdir -p, and the two ollama pull when ollama is
   installed *)
download_models ==
    /\ script = "setup.sh"
    /\ pc = "download_models"
    /\ \E hasOllama \in BOOLEAN :
          IF hasOllama
          THEN \E failing \in 0..3 :
                  ShCommands(<<"mkdir -p models", "ollama pull llama3.1:8b",
                               "ollama pull llama3.1:70b">>,
                             failing, "setup_git",
                             Success("Ollama models downloaded"))
          ELSE \E failing \in 0..1 :
                  ShCommands(<<"mkdir -p models">>, failing, "setup_git",
                             Warning("Ollama not found. Models will be downloaded when Docker container starts."))
    /\ UNCHANGED <<attempt, envLocal>>

(* setup_git: git init when there is no .git, then pre-commit install *)
setup_git ==
    /\ script = "setup.sh"
    /\ pc = "setup_git"
    /\ \E hasGit \in BOOLEAN :
          LET cmds == IF hasGit
                      THEN <<"poetry run pre-commit install">>
                      ELSE <<"git init", "poetry run pre-commit install">>
          IN  \E failing \in 0..Len(cmds) :
                 ShCommands(cmds, failing, "verify_installation",
                            Success("Git hooks installed"))
    /\ UNCHANGED <<attempt, envLocal>>

(* verify_installation: both checks are conditions of an if, so neither
   ends the script; the last line is printed on every path *)
verify_installation ==
    /\ script = "setup.sh"
    /\ pc = "verify_installation"
    /\ \E up \in BOOLEAN, healthy \in BOOLEAN :
          Run("print_next_steps",
              {"docker-compose ps", "curl -f http://localhost:8000/health"},
              (IF up THEN {"docker-compose ps"} ELSE {})
                 \cup (IF healthy THEN {"curl -f http://localhost:8000/health"} ELSE {}),
              {IF up THEN Success("Docker services are running")
                     ELSE Error("Some Docker services are not running"),
               IF healthy THEN Success("API is accessible")
                          ELSE Warning("API is not accessible yet (this is normal on first setup)"),
               SetupCompleted})
    /\ UNCHANGED <<attempt, envLocal>>

(* print_next_steps, and the end of the script *)
print_next_steps ==
    /\ script = "setup.sh"
    /\ pc = "print_next_steps"
    /\ Exit(0, {}, {}, {Info("Next steps:")})
    /\ UNCHANGED <<attempt, envLocal>>

ShNext ==
    \/ check_requirements
    \/ setup_env
    \/ install_python_deps
    \/ install_node_deps
    \/ start_docker
    \/ run_migrations
    \/ alembic_upgrade
    \/ download_models
    \/ setup_git
    \/ verify_installation
    \/ print_next_steps

----------------------------------------------------------------------------
(* The Windows setup script (PowerShell): param, $ErrorActionPreference =
   "Stop", then Main.

   A native command ends in one of three ways: it returns 0 ("ok"), it
   returns another exit code ("fail"), or it cannot be started because it
   is not installed ("missing").  A command that cannot be started raises
   CommandNotFoundException, which try/catch catches.  An exit code other
   than 0 raises nothing unless the host turns it into an error
   ($PSNativeCommandUseErrorActionPreference, or a host that wraps the
   error stream): flags.nativeThrows says which host the script runs on. *)

Outcomes == {"ok", "fail", "missing"}

Throws(o) == o = "missing" \/ (o = "fail" /\ flags.nativeThrows)

Ok(cmd, o) == IF o = "ok" THEN {cmd} ELSE {}

(* Program constant: $maxAttempts of Initialize-Database *)
maxAttempts == 30

SetupFailed == Error("Setup failed:")

(* The top of the script and of Main: -Help prints the usage and exits 0;
   -SkipChecks skips Test-Requirements *)
Main ==
    /\ script = "setup.ps1"
    /\ pc = "Main"
    /\ IF flags.Help
       THEN Exit(0, {}, {}, {Info("Usage: .\\setup.ps1 [options]")})
       ELSE Run(IF flags.SkipChecks THEN "Setup-Environment" ELSE "Test-Requirements",
                {}, {}, {})
    /\ UNCHANGED <<attempt, envLocal>>

(* One requirement of Test-Requirements: the command is found and asked
   for its version, or Install-... runs winget inside try/catch; fatal says
   whether the catch ends the script *)
Requirement(found, version, winget, o, texts, fatal) ==
    IF found
    THEN [cmds |-> {version}, oks |-> {version},
          msgs |-> {Success(texts.found)}, exits |-> FALSE]
    ELSE [cmds |-> {winget}, oks |-> Ok(winget, o),
          msgs |-> {IF Throws(o) THEN Error(texts.failed)
                                 ELSE Success(texts.installed)},
          exits |-> fatal /\ Throws(o)]

PythonTexts ==
    [found |-> "Python found:", installed |-> "Python installed successfully",
     failed |-> "Failed to install Python:"]

NodeTexts ==
    [found |-> "Node.js found:", installed |-> "Node.js installed successfully",
     failed |-> "Failed to install Node.js:"]

GitTexts ==
    [found |-> "Git found:", installed |-> "Git installed successfully",
     failed |-> "Failed to install Git:"]

DockerTexts ==
    [found |-> "Docker found:", installed |-> "Docker Desktop installed successfully",
     failed |-> "Failed to install Docker Desktop:"]

(* The first requirement whose installation ends the script, 0 if none *)
FirstExit(stages) ==
    IF \E i \in 1..Len(stages) : stages[i].exits
    THEN CHOOSE i \in 1..Len(stages) :
            /\ stages[i].exits
            /\ \A j \in 1..(i - 1) : ~stages[j].exits
    ELSE 0

(* Test-Requirements: Windows and PowerShell versions, Python, Node.js,
   Git, and Docker unless -NoDocker; exit 1 at the end when a version is
   too old *)
Test_Requirements ==
    /\ script = "setup.ps1"
    /\ pc = "Test-Requirements"
    /\ \E osOk \in BOOLEAN, psOk \in BOOLEAN,
          python \in {"py --version", "python --version", "install"},
          node \in BOOLEAN, git \in BOOLEAN, docker \in BOOLEAN,
          wPython \in Outcomes, wNode \in Outcomes,
          wGit \in Outcomes, wDocker \in Outcomes :
          LET versions ==
                  (IF osOk THEN {} ELSE {Error("Windows 10 or later is required")})
                  \cup (IF psOk THEN {} ELSE {Error("PowerShell 5.0 or later is required")})
              stages ==
                  << Requirement(python # "install", python,
                        "winget install --id Python.Python.3.11",
                        wPython, PythonTexts, TRUE),
                     Requirement(node, "node --version",
                        "winget install --id OpenJS.NodeJS.LTS",
                        wNode, NodeTexts, TRUE),
                     Requirement(git, "git --version",
                        "winget install --id Git.Git",
                        wGit, GitTexts, TRUE) >>
                  \o (IF flags.NoDocker THEN <<>>
                      ELSE << Requirement(docker, "docker --version",
                                 "winget install --id Docker.DockerDesktop",
                                 wDocker, DockerTexts, FALSE) >>)
              stop == FirstExit(stages)
              last == IF stop = 0 THEN Len(stages) ELSE stop
              cmds == UNION {stages[i].cmds : i \in 1..last}
              oks  == UNION {stages[i].oks : i \in 1..last}
              msgs == versions \cup UNION {stages[i].msgs : i \in 1..last}
          IN  IF stop # 0
              THEN Exit(1, cmds, oks, msgs)
              ELSE IF ~(osOk /\ psOk)
                   THEN Exit(1, cmds, oks, msgs \cup
                             {Error("Some requirements are not met. Please install missing components.")})
                   ELSE Run("Setup-Environment", cmds, oks, msgs)
    /\ UNCHANGED <<attempt, envLocal>>

(* Setup-Environment: Copy-Item only when .env.local is not there and
   env.example is *)
Setup_Environment ==
    /\ script = "setup.ps1"
    /\ pc = "Setup-Environment"
    /\ IF envLocal = "absent"
       THEN IF envExample
            THEN /\ Run("Install-Dependencies", {"Copy-Item env.example .env.local"},
                        {"Copy-Item env.example .env.local"},
                        {Success("Environment file created (.env.local)")})
                 /\ envLocal' = "example"
            ELSE /\ Run("Install-Dependencies", {}, {},
                        {Warning("env.example not found. Please create .env.local manually")})
                 /\ envLocal' = envLocal
       ELSE /\ Run("Install-Dependencies", {}, {},
                   {Info("Environment file already exists")})
            /\ envLocal' = envLocal
    /\ UNCHANGED attempt

(* A command inside try { ... } catch { Write-Error ...; exit 1 } *)
Guarded(cmd, o, failure) ==
    [cmds |-> {cmd}, oks |-> Ok(cmd, o),
     msgs |-> IF Throws(o) THEN {Error(failure)} ELSE {},
     exits |-> Throws(o)]

Skipped == [cmds |-> {}, oks |-> {}, msgs |-> {}, exits |-> FALSE]

(* Install-Dependencies: Install-Poetry when poetry is missing, poetry
   install, Install-PNPM when pnpm is missing, pnpm install; every catch
   ends the script *)
Install_Dependencies ==
    /\ script = "setup.ps1"
    /\ pc = "Install-Dependencies"
    /\ \E hasPoetry \in BOOLEAN, hasPnpm \in BOOLEAN, hasPy \in BOOLEAN,
          oPip \in Outcomes, oPoetry \in Outcomes,
          oNpm \in Outcomes, oPnpm \in Outcomes :
          LET pip == IF hasPy THEN "py -m pip install poetry"
                              ELSE "python -m pip install poetry"
              stages ==
                  << IF hasPoetry THEN Skipped
                     ELSE Guarded(pip, oPip, "Failed to install Poetry:"),
                     Guarded("poetry install", oPoetry,
                             "Failed to install Python dependencies:"),
                     IF hasPnpm THEN Skipped
                     ELSE Guarded("npm install -g pnpm", oNpm, "Failed to install pnpm:"),
                     Guarded("pnpm install", oPnpm,
                             "Failed to install Node.js dependencies:") >>
              stop == FirstExit(stages)
              last == IF stop = 0 THEN Len(stages) ELSE stop
              cmds == UNION {stages[i].cmds : i \in 1..last}
              oks  == UNION {stages[i].oks : i \in 1..last}
              msgs == UNION {stages[i].msgs : i \in 1..last}
          IN  IF stop # 0
              THEN Exit(1, cmds, oks, msgs)
              ELSE Run("Start-DockerServices", cmds, oks,
                       msgs \cup {Success("Python dependencies installed"),
                                  Success("Node.js dependencies installed")})
    /\ UNCHANGED <<attempt, envLocal>>

(* Mutant of Start_DockerServices: the -NoDocker return is missing *)
Start_DockerServices_Always ==
    /\ script = "setup.ps1"
    /\ pc = "Start-DockerServices"
    /\ \E oInfo \in Outcomes, oUp \in Outcomes :
          IF Throws(oInfo)
          THEN Exit(1, {"docker info"}, {},
                    {Error("Docker is not running. Please start Docker Desktop.")})
          ELSE IF Throws(oUp)
               THEN Exit(1, {"docker info", "docker-compose up -d"},
                         Ok("docker info", oInfo),
                         {Error("Failed to start Docker services:")})
               ELSE Run("Initialize-Database",
                        {"docker info", "docker-compose up -d"},
                        Ok("docker info", oInfo) \cup Ok("docker-compose up -d", oUp),
                        {Success("Docker services started")})
    /\ UNCHANGED <<attempt, envLocal>>

(* Start-DockerServices: returns at once with -NoDocker; docker info and
   docker-compose up -d, each in a try whose catch ends the script *)
Start_DockerServices ==
    /\ script = "setup.ps1"
    /\ pc = "Start-DockerServices"
    /\ IF flags.NoDocker
       THEN Run("Initialize-Database", {}, {},
                {Info("Skipping Docker services (NoDocker flag set)")})
       ELSE \E oInfo \in Outcomes, oUp \in Outcomes :
               IF Throws(oInfo)
               THEN Exit(1, {"docker info"}, {},
                         {Error("Docker is not running. Please start Docker Desktop.")})
               ELSE IF Throws(oUp)
                    THEN Exit(1, {"docker info", "docker-compose up -d"},
                              Ok("docker info", oInfo),
                              {Error("Failed to start Docker services:")})
                    ELSE Run("Initialize-Database",
                             {"docker info", "docker-compose up -d"},
                             Ok("docker info", oInfo) \cup Ok("docker-compose up -d", oUp),
                             {Success("Docker services started")})
    /\ UNCHANGED <<attempt, envLocal>>

(* Initialize-Database, up to the loop: returns at once with -NoDocker;
   $attempt = 0 *)
Initialize_Database ==
    /\ script = "setup.ps1"
    /\ pc = "Initialize-Database"
    /\ IF flags.NoDocker
       THEN Run("Setup-Git", {}, {},
                {Info("Skipping database initialization (NoDocker flag set)")})
       ELSE Run("pg_isready", {}, {}, {Info("Initializing database...")})
    /\ attempt' = 0
    /\ UNCHANGED envLocal

(* Initialize-Database, one iteration of do { ... } while ($attempt -lt
   $maxAttempts): $attempt++, the probe, then break; the catch runs only
   when the probe throws, and throws itself at the last attempt, which the
   outer catch turns into exit 1.  docker-compose has just been started by
   Start-DockerServices, so the probe is never "missing". *)
WaitForPostgreSQL ==
    /\ script = "setup.ps1"
    /\ pc = "pg_isready"
    /\ attempt' = attempt + 1
    /\ \E o \in {"ok", "fail"} :
          IF ~Throws(o)
          THEN Run("alembic", {PsPgIsReady}, Ok(PsPgIsReady, o),
                   {Info("Waiting for PostgreSQL...")})
          ELSE IF attempt' = maxAttempts
               THEN Exit(1, {PsPgIsReady}, {},
                         {Info("Waiting for PostgreSQL..."),
                          Error("Failed to initialize database: PostgreSQL failed to start after 30 attempts")})
               ELSE IF attempt' < maxAttempts
                    THEN Run("pg_isready", {PsPgIsReady}, {},
                             {Info("Waiting for PostgreSQL...")})
                    ELSE Run("alembic", {PsPgIsReady}, {},
                             {Info("Waiting for PostgreSQL...")})
    /\ UNCHANGED envLocal

(* Initialize-Database, after the loop: Push-Location api; poetry run
   alembic upgrade head; Pop-Location, inside the outer try.  Push-Location
   is a cmdlet: without the directory it throws.  $attempt is a variable
   of the function and is gone when it returns. *)
RunMigrations ==
    /\ script = "setup.ps1"
    /\ pc = "alembic"
    /\ \E hasApi \in BOOLEAN, o \in Outcomes :
          IF ~hasApi
          THEN Exit(1, {"Push-Location api"}, {},
                    {Error("Failed to initialize database:")})
          ELSE IF Throws(o)
               THEN Exit(1, {"Push-Location api", Alembic}, {"Push-Location api"},
                         {Error("Failed to initialize database:")})
               ELSE Run("Setup-Git", {"Push-Location api", Alembic},
                        {"Push-Location api"} \cup Ok(Alembic, o),
                        {Success("Database initialized")})
    /\ attempt' = 0
    /\ UNCHANGED envLocal

(* Setup-Git: git init when there is no .git (a throw reaches the catch of
   Main); git config and pre-commit install, whose catches only warn *)
Setup_Git ==
    /\ script = "setup.ps1"
    /\ pc = "Setup-Git"
    /\ \E hasGit \in BOOLEAN, oInit \in Outcomes,
          oConfig \in Outcomes, oHooks \in Outcomes :
          IF ~hasGit /\ Throws(oInit)
          THEN Exit(1, {"git init"}, {}, {SetupFailed})
          ELSE Run("Test-Installation",
                   (IF hasGit THEN {} ELSE {"git init"})
                      \cup {"git config --global user.name",
                            "poetry run pre-commit install"},
                   (IF hasGit THEN {} ELSE Ok("git init", oInit))
                      \cup Ok("git config --global user.name", oConfig)
                      \cup Ok("poetry run pre-commit install", oHooks),
                   {IF Throws(oConfig)
                    THEN Warning("Git configuration failed, but continuing...")
                    ELSE Success("Git configuration complete"),
                    IF Throws(oHooks)
                    THEN Warning("Failed to install Git hooks, but continuing...")
                    ELSE Success("Git hooks installed")})
    /\ UNCHANGED <<attempt, envLocal>>

(* Test-Installation: docker-compose ps unless -NoDocker, and the four
   required files; every finding is a warning *)
Test_Installation ==
    /\ script = "setup.ps1"
    /\ pc = "Test-Installation"
    /\ \E o \in {"ok", "fail"}, up \in BOOLEAN, files \in BOOLEAN :
          LET good == /\ flags.NoDocker \/ (~Throws(o) /\ up)
                      /\ files
                      /\ envLocal # "absent"
          IN  Run("Show-NextSteps",
                  IF flags.NoDocker THEN {} ELSE {"docker-compose ps"},
                  IF flags.NoDocker THEN {} ELSE Ok("docker-compose ps", o),
                  {IF good
                   THEN Success("Installation verification completed successfully")
                   ELSE Warning("Some issues were found, but setup may still work")})
    /\ UNCHANGED <<attempt, envLocal>>

(* Show-NextSteps, the last line of Main and the end of the script *)
Show_NextSteps ==
    /\ script = "setup.ps1"
    /\ pc = "Show-NextSteps"
    /\ Exit(0, {}, {}, {Info("Next steps:"), SetupCompleted})
    /\ UNCHANGED <<attempt, envLocal>>

Ps1Next ==
    \/ Main
    \/ Test_Requirements
    \/ Setup_Environment
    \/ Install_Dependencies
    \/ Start_DockerServices
    \/ Initialize_Database
    \/ WaitForPostgreSQL
    \/ RunMigrations
    \/ Setup_Git
    \/ Test_Installation
    \/ Show_NextSteps

----------------------------------------------------------------------------
(* dev.bat.  A batch script goes on after a command that fails; only
   exit /b ends it before its last line.  pause waits for a key. *)

(* if not exist ".env.local": copy env.example .env.local, then pause *)
BatEnvLocal ==
    /\ script = "dev.bat"
    /\ pc = "env.local"
    /\ IF envLocal = "absent"
       THEN /\ Run("pause env.local", {"copy env.example .env.local"},
                   IF envExample THEN {"copy env.example .env.local"} ELSE {},
                   {Success(".env.local created")})
            /\ envLocal' = IF envExample THEN "example" ELSE envLocal
       ELSE /\ Run("docker-compose", {}, {}, {})
            /\ envLocal' = envLocal
    /\ UNCHANGED attempt

(* Mutant of BatDockerCompose: %errorlevel% is not looked at *)
BatDockerComposeUnchecked ==
    /\ script = "dev.bat"
    /\ pc = "docker-compose"
    /\ \E up \in BOOLEAN :
          Run("install", {"docker-compose up -d"},
              IF up THEN {"docker-compose up -d"} ELSE {}, {})
    /\ UNCHANGED <<attempt, envLocal>>

(* docker-compose up -d, and if %errorlevel% neq 0 the message and pause;
   otherwise timeout /t 30 *)
BatDockerCompose ==
    /\ script = "dev.bat"
    /\ pc = "docker-compose"
    /\ \E up \in BOOLEAN :
          IF up
          THEN Run("install", {"docker-compose up -d"}, {"docker-compose up -d"}, {})
          ELSE Run("pause failed", {"docker-compose up -d"}, {},
                   {Error("Failed to start Docker services")})
    /\ UNCHANGED <<attempt, envLocal>>

(* A key is pressed at a pause: after the copy the script goes on, after
   the failure of docker-compose it does exit /b 1, at the last line it
   ends *)
BatPause ==
    /\ script = "dev.bat"
    /\ pc \in {"pause env.local", "pause failed", "pause started"}
    /\ IF pc = "pause env.local"
       THEN Run("docker-compose", {}, {}, {})
       ELSE IF pc = "pause failed"
            THEN Exit(1, {}, {}, {})
            ELSE Exit(0, {}, {}, {})
    /\ UNCHANGED <<attempt, envLocal>>

(* if not exist "node_modules": call pnpm install; if not exist ".venv":
   call py -m pip install poetry, call poetry install *)
BatInstall ==
    /\ script = "dev.bat"
    /\ pc = "install"
    /\ \E hasNodeModules \in BOOLEAN, hasVenv \in BOOLEAN,
          oks \in SUBSET {"pnpm install", "py -m pip install poetry", "poetry install"} :
          LET cmds == (IF hasNodeModules THEN {} ELSE {"pnpm install"})
                      \cup (IF hasVenv THEN {}
                            ELSE {"py -m pip install poetry", "poetry install"})
          IN  /\ oks \subseteq cmds
              /\ Run("start", cmds, oks, {})
    /\ UNCHANGED <<attempt, envLocal>>

(* The two start /B, and the last messages *)
BatStartServers ==
    /\ script = "dev.bat"
    /\ pc = "start"
    /\ Run("pause started", {Uvicorn, PnpmDev}, {Uvicorn, PnpmDev},
           {Success("Development environment started!")})
    /\ UNCHANGED <<attempt, envLocal>>

BatNext ==
    \/ BatEnvLocal
    \/ BatDockerCompose
    \/ BatPause
    \/ BatInstall
    \/ BatStartServers

----------------------------------------------------------------------------
(* A run of one of the three scripts, in a directory where .env.local is
   absent or the user's own *)

Scripts == {"setup.sh", "setup.ps1", "dev.bat"}

Entry ==
    [s \in Scripts |->
        IF s = "setup.sh" THEN "check_requirements"
        ELSE IF s = "setup.ps1" THEN "Main" ELSE "env.local"]

Switches ==
    [SkipChecks : BOOLEAN, NoDocker : BOOLEAN, Help : BOOLEAN,
     nativeThrows : BOOLEAN]

ScriptInit ==
    /\ DashboardInit
    /\ rows = <<>>
    /\ rendered = <<>>
    /\ script \in Scripts
    /\ flags \in (IF script = "setup.ps1" THEN Switches ELSE {NoFlags})
    /\ pc = Entry[script]
    /\ invoked = {}
    /\ succeeded = {}
    /\ printed = {}
    /\ exitCode = -1
    /\ attempt = 0
    /\ envLocal \in {"absent", "user"}
    /\ envExample \in BOOLEAN

ScriptNext == ShNext \/ Ps1Next \/ BatNext

ScriptSpec == ScriptInit /\ [][ScriptNext]_vars

----------------------------------------------------------------------------
(* Properties of the scripts *)

ErrorLogged == \E m \in printed : m[1] = "error"

(* A command of the run failed *)
Failed(cmd) == cmd \in invoked /\ cmd \notin succeeded

(* C23: the Unix setup script exits on any error: once a step of main has
   failed - it logged an error, or a command of it failed - the script does
   not end with success and "Setup completed successfully!" is not
   printed. *)
C23_ExitsOnAnyError ==
    (script = "setup.sh" /\ (ErrorLogged \/ Failed("cd api"))) =>
        /\ exitCode # 0
        /\ SetupCompleted \notin printed

(* C24: with -NoDocker the Windows setup script runs no docker or
   docker-compose command and no migration, with or without -SkipChecks. *)
C24_NoDockerRunsNoDocker ==
    (script = "setup.ps1" /\ flags.NoDocker) =>
        invoked \cap (DockerCommands \cup {Alembic}) = {}

(* A run with -NoDocker and the requirements checked went through all of
   Main *)
C24_Witness ==
    /\ script = "setup.ps1"
    /\ flags.NoDocker
    /\ ~flags.SkipChecks
    /\ exitCode = 0
    /\ SetupCompleted \in printed

PostgreSQLFailedToStart ==
    Error("Failed to initialize database: PostgreSQL failed to start after 30 attempts")

(* C25: Initialize-Database probes PostgreSQL at most 30 times; the
   migration runs only after a probe succeeded; after 30 failed probes the
   setup fails with "PostgreSQL failed to start after 30 attempts" and
   exits 1 without running the migration. *)
C25_MigrationsAfterReadyProbe ==
    script = "setup.ps1" =>
        /\ attempt <= maxAttempts
        /\ Alembic \in invoked => PsPgIsReady \in succeeded
        /\ PostgreSQLFailedToStart \in printed =>
              /\ exitCode = 1
              /\ Alembic \notin invoked

(* C26: the Unix setup script starts the migration only after docker info,
   docker-compose up -d and pg_isready have succeeded, and the wait for
   PostgreSQL is left by a probe that succeeds and by nothing else, however
   many probes have failed. *)
C26_MigrationsAfterReadiness ==
    /\ []((script = "setup.sh" /\ Alembic \in invoked) =>
            {"docker info", "docker-compose up -d", PgIsReady} \subseteq succeeded)
    /\ [][(script = "setup.sh" /\ pc = "run_migrations" /\ pc' # pc) =>
            /\ PgIsReady \in succeeded'
            /\ pc' = "alembic_upgrade"]_vars
    /\ []((script = "setup.sh" /\ pc = "run_migrations") => exitCode = -1)

(* The migration ran after the probe had failed as often as the model lets
   it *)
C26_Witness ==
    /\ script = "setup.sh"
    /\ attempt = MaxWaits
    /\ Alembic \in succeeded

(* C27: no script overwrites an existing .env.local: setup_env,
   Setup-Environment and dev.bat copy env.example to .env.local only when
   there is no .env.local, and otherwise leave the file as it is. *)
C27_EnvLocalNeverOverwritten ==
    /\ [][envLocal # "absent" => envLocal' = envLocal]_vars
    /\ [][envLocal' # envLocal =>
            /\ pc \in {"setup_env", "Setup-Environment", "env.local"}
            /\ envExample
            /\ envLocal' = "example"
            /\ invoked' \cap Copies # {}]_vars
    /\ []((invoked \cap Copies # {}) => envLocal # "user")

(* setup_env found the user's .env.local and the script went on to its
   end *)
C27_Witness ==
    /\ script = "setup.sh"
    /\ envLocal = "user"
    /\ Info("Environment file already exists") \in printed
    /\ exitCode = 0

Servers == {Uvicorn, PnpmDev}

(* C28: dev.bat starts the two servers only if docker-compose up -d
   succeeded; when it failed the script exits with code 1 and has neither
   installed dependencies nor started a server. *)
C28_ServersOnlyAfterDocker ==
    script = "dev.bat" =>
        /\ (invoked \cap (Servers \cup Installs) # {}) =>
              "docker-compose up -d" \in succeeded
        /\ Failed("docker-compose up -d") =>
              /\ invoked \cap (Servers \cup Installs) = {}
              /\ pc \in {"pause failed", "exited"}
              /\ pc = "exited" => exitCode = 1

(* docker-compose up -d failed and the script has exited *)
C28_Witness ==
    /\ script = "dev.bat"
    /\ Failed("docker-compose up -d")
    /\ pc = "exited"
    /\ exitCode = 1

====
